---- MODULE Spec2Model ----
(***************************************************************************)
(* PageRank (src/pagerank.py): transition_model, sample_pagerank and       *)
(* iterate_pagerank over a corpus, a mapping from page to the set of pages *)
(* it links to.                                                            *)
(*                                                                         *)
(* Numbers.  The Python code computes in floats; the model computes the   *)
(* same expressions exactly.  transition_model and sample_pagerank hold    *)
(* small fractions (records num/den, reduced).  iterate_pagerank holds a   *)
(* rank x as the natural number x * scale, scale being multiplied at the   *)
(* start of each sweep by a factor that makes every division of the sweep  *)
(* exact; these numbers outgrow machine integers and are kept as sequences *)
(* of base-1000000 digits, least significant first.                        *)
(***************************************************************************)
EXTENDS Integers, Sequences, FiniteSets, TLC

\* corpus, damping_factor: the arguments.  pc: where the call stands.
\* page: transition_model's argument, sample_pagerank's current page, or the
\* loop variable of iterate_pagerank's two loops.  scale: see above.
\* snapshot and swept are history variables, read by the properties only:
\* the ranks the current sweep started with, and whether a sweep has ended.
VARIABLES corpus, damping_factor, pc, page,
          results_dict,
          n, samples, sample_PR_results,
          pagerank, new_rank, stop, scale,
          snapshot, swept

vars == <<corpus, damping_factor, pc, page, results_dict, n, samples,
          sample_PR_results, pagerank, new_rank, stop, scale, snapshot, swept>>

tmVars == <<results_dict>>
sampleVars == <<n, samples, sample_PR_results>>
iterVars == <<pagerank, new_rank, stop, scale, snapshot, swept>>

\* Bounds of the model.
MaxPages == 3
MaxSamples == 3

\* Program constants.
SAMPLES == 10000
DAMPING == [num |-> 17, den |-> 20]
ThresholdInverse == 1000

(***************************************************************************)
(* Small exact fractions.                                                  *)
(***************************************************************************)
RECURSIVE GCD(_, _)
GCD(a, b) == IF b = 0 THEN a ELSE GCD(b, a % b)

Frac(a, b) == LET g == GCD(a, b) IN [num |-> a \div g, den |-> b \div g]

RAdd(x, y) == Frac(x.num * y.den + y.num * x.den, x.den * y.den)

ROneMinus(x) == Frac(x.den - x.num, x.den)

RDivInt(x, k) == Frac(x.num, x.den * k)

RZero == [num |-> 0, den |-> 1]
ROne == [num |-> 1, den |-> 1]

(***************************************************************************)
(* Natural numbers of any size: sequences of digits in 0..Base-1, least    *)
(* significant first, no leading zero digit; zero is the empty sequence.   *)
(***************************************************************************)
Base == 1000 * 1000

RECURSIVE BFromInt(_)
BFromInt(k) == IF k = 0 THEN << >> ELSE <<k % Base>> \o BFromInt(k \div Base)

RECURSIVE BNorm(_)
BNorm(a) ==
    IF a = << >> THEN << >>
    ELSE IF a[Len(a)] = 0 THEN BNorm(SubSeq(a, 1, Len(a) - 1))
    ELSE a

RECURSIVE BAddC(_, _, _)
BAddC(a, b, c) ==
    IF a = << >> /\ b = << >> THEN (IF c = 0 THEN << >> ELSE <<c>>)
    ELSE LET x == (IF a = << >> THEN 0 ELSE Head(a))
                  + (IF b = << >> THEN 0 ELSE Head(b)) + c
         IN  <<x % Base>> \o BAddC(IF a = << >> THEN a ELSE Tail(a),
                                   IF b = << >> THEN b ELSE Tail(b),
                                   x \div Base)

BAdd(a, b) == BAddC(a, b, 0)

RECURSIVE BLessFrom(_, _, _)
BLessFrom(a, b, i) ==
    IF i = 0 THEN FALSE
    ELSE IF a[i] # b[i] THEN a[i] < b[i]
    ELSE BLessFrom(a, b, i - 1)

BLess(a, b) ==
    IF Len(a) # Len(b) THEN Len(a) < Len(b) ELSE BLessFrom(a, b, Len(a))

BLeq(a, b) == ~BLess(b, a)

\* a - b for a >= b.
RECURSIVE BSubC(_, _, _)
BSubC(a, b, c) ==
    IF a = << >> THEN << >>
    ELSE LET x == Head(a) - (IF b = << >> THEN 0 ELSE Head(b)) - c
         IN  <<(x + Base) % Base>>
             \o BSubC(Tail(a), IF b = << >> THEN b ELSE Tail(b),
                      IF x < 0 THEN 1 ELSE 0)

BSub(a, b) == BNorm(BSubC(a, b, 0))

BAbsDiff(a, b) == IF BLess(a, b) THEN BSub(b, a) ELSE BSub(a, b)

\* a * k for a small natural k.
RECURSIVE BMulC(_, _, _)
BMulC(a, k, c) ==
    IF a = << >> THEN BFromInt(c)
    ELSE LET x == Head(a) * k + c
         IN  <<x % Base>> \o BMulC(Tail(a), k, x \div Base)

BMul(a, k) == IF k = 0 THEN << >> ELSE BMulC(a, k, 0)

\* Quotient and remainder of a by a small positive k.
RECURSIVE BDivRem(_, _)
BDivRem(a, k) ==
    IF a = << >> THEN [quot |-> << >>, rem |-> 0]
    ELSE LET hi == BDivRem(Tail(a), k)
             x  == hi.rem * Base + Head(a)
         IN  [quot |-> <<x \div k>> \o hi.quot, rem |-> x % k]

BDiv(a, k) == BNorm(BDivRem(a, k).quot)

BRem(a, k) == BDivRem(a, k).rem

(***************************************************************************)
(* Inputs.  A corpus of k pages has the keys 1..k; crawl (lines 25-49)     *)
(* keeps only links to keys and removes self-links.                        *)
(***************************************************************************)
Corpora ==
    UNION { {c \in [1..k -> SUBSET (1..k)] : \A p \in 1..k : p \notin c[p]}
            : k \in 0..MaxPages }

Dampings == {DAMPING, [num |-> 1, den |-> 2]}

NumPages(c) == Cardinality(DOMAIN c)

Init ==
    /\ corpus \in Corpora
    /\ damping_factor \in Dampings
    /\ pc = "idle"
    /\ page = 0
    /\ results_dict = << >>
    /\ n = 0
    /\ samples = << >>
    /\ sample_PR_results = << >>
    /\ pagerank = << >>
    /\ new_rank = << >>
    /\ stop = FALSE
    /\ scale = << >>
    /\ snapshot = << >>
    /\ swept = FALSE

(***************************************************************************)
(* transition_model (lines 52-71).                                         *)
(***************************************************************************)
\* corpus.get(page) is None for a page that is no key; the first website
\* with links then reaches "website not in page_links" and raises TypeError.
TransitionRaises(c, pg) ==
    pg \notin DOMAIN c /\ \E website \in DOMAIN c : Cardinality(c[website]) # 0

\* The body of the loop (lines 65-70): what results_dict[website] is set to.
Probability(c, pg, d, website) ==
    LET num_websites == NumPages(c)
        links == c[website]
    IN  IF Cardinality(links) = 0
        THEN Frac(1, num_websites)
        ELSE IF website = pg \/ website \notin c[pg]
        THEN RDivInt(ROneMinus(d), num_websites)
        ELSE RAdd(RDivInt(ROneMinus(d), num_websites),
                  RDivInt(d, Cardinality(c[pg])))

transition_model(c, pg, d) ==
    [website \in DOMAIN c |-> Probability(c, pg, d, website)]

CallTransitionModel ==
    /\ pc = "idle"
    /\ \E pg \in 1..(MaxPages + 1) :
         /\ page' = pg
         /\ IF TransitionRaises(corpus, pg)
            THEN pc' = "tm_raised" /\ results_dict' = << >>
            ELSE /\ pc' = "tm_returned"
                 /\ results_dict' = transition_model(corpus, pg, damping_factor)
    /\ UNCHANGED <<corpus, damping_factor>>
    /\ UNCHANGED sampleVars
    /\ UNCHANGED iterVars

(***************************************************************************)
(* sample_pagerank (lines 73-100).                                         *)
(***************************************************************************)
Range(s) == {s[i] : i \in DOMAIN s}

Count(s, w) == Cardinality({i \in DOMAIN s : s[i] = w})

\* Lines 82-87: random.choice raises IndexError on an empty list.
SampleStart ==
    /\ pc = "idle"
    /\ \E k \in 1..MaxSamples : n' = k
    /\ IF DOMAIN corpus = {}
       THEN pc' = "sample_raised" /\ UNCHANGED <<page, samples>>
       ELSE \E website \in DOMAIN corpus :
              /\ page' = website
              /\ samples' = <<website>>
              /\ pc' = "sampling"
    /\ UNCHANGED <<corpus, damping_factor, sample_PR_results>>
    /\ UNCHANGED tmVars
    /\ UNCHANGED iterVars

\* Lines 88-95: one round of the loop; random.choices draws any page of
\* positive weight.
SampleStep ==
    /\ pc = "sampling"
    /\ Len(samples) < n
    /\ LET prediction == transition_model(corpus, page, damping_factor)
       IN  \E website \in DOMAIN corpus :
             /\ prediction[website].num > 0
             /\ page' = website
             /\ samples' = Append(samples, website)
    /\ UNCHANGED <<corpus, damping_factor, pc, n, sample_PR_results>>
    /\ UNCHANGED tmVars
    /\ UNCHANGED iterVars

\* Lines 96-100: the loop is over; the counts are divided by SAMPLES.
SampleFinish ==
    /\ pc = "sampling"
    /\ Len(samples) >= n
    /\ sample_PR_results' =
         [website \in Range(samples) |-> Frac(Count(samples, website), SAMPLES)]
    /\ pc' = "sample_returned"
    /\ UNCHANGED <<corpus, damping_factor, page, n, samples>>
    /\ UNCHANGED tmVars
    /\ UNCHANGED iterVars

(***************************************************************************)
(* iterate_pagerank (lines 102-132).  A rank x is held as x * scale.       *)
(***************************************************************************)
RECURSIVE Factorial(_)
Factorial(k) == IF k = 0 THEN 1 ELSE k * Factorial(k - 1)

\* Restating x over the refined scale: the scale is multiplied by the
\* denominator of the damping factor and by a multiple of the page count and
\* of every link count.
Refined(c, d, x) == BMul(BMul(x, d.den), Factorial(NumPages(c)))

\* Contribution without lines 125-126: a dangling page adds nothing.
ContributionNoDangling(c, pr, pg, possible_page) ==
    IF pg \in c[possible_page]
    THEN BDiv(pr[possible_page], Cardinality(c[possible_page]))
    ELSE << >>

\* Contribution with a dangling page's rank shared among the other pages
\* only, as if it linked to every page but itself.
ContributionDanglingToOthers(c, pr, pg, possible_page) ==
    BAdd(IF pg \in c[possible_page]
         THEN BDiv(pr[possible_page], Cardinality(c[possible_page]))
         ELSE << >>,
         IF Cardinality(c[possible_page]) = 0 /\ pg # possible_page
         THEN BDiv(pr[possible_page], NumPages(c) - 1)
         ELSE << >>)

\* Lines 123-126: what one possible_page adds to total.
Contribution(c, pr, pg, possible_page) ==
    BAdd(IF pg \in c[possible_page]
         THEN BDiv(pr[possible_page], Cardinality(c[possible_page]))
         ELSE << >>,
         IF Cardinality(c[possible_page]) = 0
         THEN BDiv(pr[possible_page], NumPages(c))
         ELSE << >>)

\* Lines 121-126: total after the possible pages 1..k.
RECURSIVE Total(_, _, _, _)
Total(c, pr, pg, k) ==
    IF k = 0 THEN << >>
    ELSE BAdd(Total(c, pr, pg, k - 1), Contribution(c, pr, pg, k))

\* Line 127.
NewRank(c, d, pr, sc, pg) ==
    BAdd(BDiv(BMul(sc, d.den - d.num), d.den * NumPages(c)),
         BDiv(BMul(Total(c, pr, pg, NumPages(c)), d.num), d.den))

\* Line 129: abs(pagerank[page] - new_rank[page]) > 0.001.
Exceeds(old, new, sc) == BLess(sc, BMul(BAbsDiff(old, new), ThresholdInverse))

\* Lines 111-116.
IterateStart ==
    /\ pc = "idle"
    /\ pagerank' = [pg \in DOMAIN corpus |-> BFromInt(1)]
    /\ scale' = IF DOMAIN corpus = {} THEN BFromInt(1)
                ELSE BFromInt(NumPages(corpus))
    /\ new_rank' = << >>
    /\ stop' = FALSE
    /\ pc' = "while"
    /\ UNCHANGED <<corpus, damping_factor, page, snapshot, swept>>
    /\ UNCHANGED tmVars
    /\ UNCHANGED sampleVars

\* Lines 118-119: the loop is entered and stop set.  The ranks are restated
\* over the refined scale, which leaves their values as they are.
BeginSweep ==
    /\ pc = "while"
    /\ stop = FALSE
    /\ stop' = TRUE
    /\ scale' = Refined(corpus, damping_factor, scale)
    /\ pagerank' = [pg \in DOMAIN pagerank |->
                      Refined(corpus, damping_factor, pagerank[pg])]
    /\ new_rank' = [pg \in DOMAIN new_rank |->
                      Refined(corpus, damping_factor, new_rank[pg])]
    /\ snapshot' = pagerank'
    /\ IF DOMAIN corpus = {}
       THEN pc' = "while" /\ swept' = TRUE /\ UNCHANGED page
       ELSE pc' = "compute" /\ page' = 1 /\ UNCHANGED swept
    /\ UNCHANGED <<corpus, damping_factor>>
    /\ UNCHANGED tmVars
    /\ UNCHANGED sampleVars

\* ComputeRank writing the new rank into pagerank at once, so that the
\* pages after it read it.
ComputeRankInPlace ==
    /\ pc = "compute"
    /\ LET r == NewRank(corpus, damping_factor, pagerank, scale, page)
       IN  /\ new_rank' = [pg \in DOMAIN new_rank \cup {page} |->
                             IF pg = page THEN r ELSE new_rank[pg]]
           /\ pagerank' = [pagerank EXCEPT ![page] = r]
    /\ IF page < NumPages(corpus)
       THEN page' = page + 1 /\ UNCHANGED pc
       ELSE page' = 1 /\ pc' = "commit"
    /\ UNCHANGED <<corpus, damping_factor, stop, scale, snapshot, swept>>
    /\ UNCHANGED tmVars
    /\ UNCHANGED sampleVars

\* Lines 120-127: one round of the first loop.
ComputeRank ==
    /\ pc = "compute"
    /\ new_rank' =
         [pg \in DOMAIN new_rank \cup {page} |->
            IF pg = page
            THEN NewRank(corpus, damping_factor, pagerank, scale, page)
            ELSE new_rank[pg]]
    /\ IF page < NumPages(corpus)
       THEN page' = page + 1 /\ UNCHANGED pc
       ELSE page' = 1 /\ pc' = "commit"
    /\ UNCHANGED <<corpus, damping_factor, pagerank, stop, scale, snapshot, swept>>
    /\ UNCHANGED tmVars
    /\ UNCHANGED sampleVars

\* CommitRank with stop assigned by every page, so that the last page of
\* the sweep decides alone.
CommitRankLastPageDecides ==
    /\ pc = "commit"
    /\ stop' = ~Exceeds(pagerank[page], new_rank[page], scale)
    /\ pagerank' = [pagerank EXCEPT ![page] = new_rank[page]]
    /\ IF page < NumPages(corpus)
       THEN page' = page + 1 /\ UNCHANGED <<pc, swept>>
       ELSE page' = 1 /\ pc' = "while" /\ swept' = TRUE
    /\ UNCHANGED <<corpus, damping_factor, new_rank, scale, snapshot>>
    /\ UNCHANGED tmVars
    /\ UNCHANGED sampleVars

\* Lines 128-131: one round of the second loop.
CommitRank ==
    /\ pc = "commit"
    /\ stop' = IF Exceeds(pagerank[page], new_rank[page], scale)
               THEN FALSE ELSE stop
    /\ pagerank' = [pagerank EXCEPT ![page] = new_rank[page]]
    /\ IF page < NumPages(corpus)
       THEN page' = page + 1 /\ UNCHANGED <<pc, swept>>
       ELSE page' = 1 /\ pc' = "while" /\ swept' = TRUE
    /\ UNCHANGED <<corpus, damping_factor, new_rank, scale, snapshot>>
    /\ UNCHANGED tmVars
    /\ UNCHANGED sampleVars

\* Lines 118 and 132: the loop ends and pagerank is returned.
IterateReturn ==
    /\ pc = "while"
    /\ stop = TRUE
    /\ pc' = "returned"
    /\ UNCHANGED <<corpus, damping_factor, page>>
    /\ UNCHANGED tmVars
    /\ UNCHANGED sampleVars
    /\ UNCHANGED iterVars

(***************************************************************************)
(* Specifications: one per function, and all three together.               *)
(***************************************************************************)
NextTransition == CallTransitionModel

NextSample == SampleStart \/ SampleStep \/ SampleFinish

NextIterate ==
    IterateStart \/ BeginSweep \/ ComputeRank \/ CommitRank \/ IterateReturn

Next == NextTransition \/ NextSample \/ NextIterate

SpecTransition == Init /\ [][NextTransition]_vars

SpecSample == Init /\ [][NextSample]_vars

SpecIterate == Init /\ [][NextIterate]_vars

Spec == Init /\ [][Next]_vars

\* Every division of a sweep is exact over the refined scale.
ExactDivisions ==
    pc = "compute" =>
      /\ BRem(BMul(scale, damping_factor.den - damping_factor.num),
              damping_factor.den * NumPages(corpus)) = 0
      /\ BRem(BMul(Total(corpus, pagerank, page, NumPages(corpus)),
                   damping_factor.num), damping_factor.den) = 0
      /\ \A q \in DOMAIN corpus :
           /\ BRem(pagerank[q], NumPages(corpus)) = 0
           /\ Cardinality(corpus[q]) # 0 =>
                BRem(pagerank[q], Cardinality(corpus[q])) = 0

TypeOK ==
    /\ pc \in {"idle", "tm_raised", "tm_returned", "sample_raised", "sampling",
               "sample_returned", "while", "compute", "commit", "returned"}
    /\ stop \in BOOLEAN
    /\ \A pg \in DOMAIN pagerank :
         \A i \in DOMAIN pagerank[pg] : pagerank[pg][i] \in 0..(Base - 1)

(***************************************************************************)
(* Helpers of the properties.                                              *)
(***************************************************************************)
RECURSIVE RSum(_, _)
RSum(f, S) ==
    IF S = {} THEN RZero
    ELSE LET w == CHOOSE x \in S : TRUE IN RAdd(f[w], RSum(f, S \ {w}))

RECURSIVE BSum(_, _)
BSum(f, S) ==
    IF S = {} THEN << >>
    ELSE LET w == CHOOSE x \in S : TRUE IN BAdd(f[w], BSum(f, S \ {w}))

Pages == DOMAIN corpus

Dangling == {q \in Pages : corpus[q] = {}}

LinkingTo(pg) == {q \in Pages : pg \in corpus[q]}

\* The PageRank recurrence for page pg over the ranks r (held over scale):
\* (1-d)/N + d * (sum of r[q]/L_q over the q linking to pg
\*                + sum of r[q]/N over the dangling q).
Recurrence(r, pg) ==
    LET d == damping_factor
        shares == [q \in Pages |->
                     IF q \in Dangling THEN BDiv(r[q], NumPages(corpus))
                     ELSE BDiv(r[q], Cardinality(corpus[q]))]
        sum == BAdd(BSum(shares, LinkingTo(pg)), BSum(shares, Dangling))
    IN  BAdd(BDiv(BMul(scale, d.den - d.num), d.den * NumPages(corpus)),
             BDiv(BMul(sum, d.num), d.den))

\* |x/scale - a/b| <= 0.001.
Near(x, a, b) ==
    BLeq(BMul(BAbsDiff(BMul(x, b), BMul(scale, a)), ThresholdInverse),
         BMul(scale, b))

\* No page's rank changed by more than 0.001 in the last sweep.
AllWithin == \A pg \in Pages : ~Exceeds(snapshot[pg], pagerank[pg], scale)

\* The corpora {A: {B}, B: {}} and {A: {B}, B: {A}}, A = 1 and B = 2.
DanglingPair == <<{2}, {}>>

TwoCycle == <<{2}, {1}>>

(***************************************************************************)
(* Properties.                                                             *)
(***************************************************************************)

\* C1: for a non-empty corpus and a page that is a key, the values that
\* transition_model returns sum to 1.
C1_SumsToOne ==
    (pc = "tm_returned" /\ page \in Pages) =>
        RSum(results_dict, Pages) = ROne

\* C2: for a dangling current page, transition_model gives every page
\* exactly 1/N.
C2_DanglingUniform ==
    (pc = "tm_returned" /\ page \in Pages /\ corpus[page] = {}) =>
        \A website \in Pages :
            results_dict[website] = Frac(1, NumPages(corpus))

\* C3: for a current page with L >= 1 links, transition_model gives
\* (1-d)/N + d/L to every page it links to and (1-d)/N to every other page.
C3_LinkedFormula ==
    (pc = "tm_returned" /\ page \in Pages /\ corpus[page] # {}) =>
        \A website \in Pages :
            results_dict[website] =
                IF website \in corpus[page]
                THEN RAdd(RDivInt(ROneMinus(damping_factor), NumPages(corpus)),
                          RDivInt(damping_factor, Cardinality(corpus[page])))
                ELSE RDivInt(ROneMinus(damping_factor), NumPages(corpus))

\* C4: sample_pagerank records n samples and returns each visited page's
\* count divided by n, so that the returned values sum to 1.
C4_DividesByN ==
    pc = "sample_returned" =>
        /\ Len(samples) = n
        /\ \A website \in DOMAIN sample_PR_results :
               sample_PR_results[website] = Frac(Count(samples, website), n)
        /\ RSum(sample_PR_results, DOMAIN sample_PR_results) = ROne

\* C5: the ranks of iterate_pagerank sum to 1 initially, after every
\* completed sweep and when returned, dangling pages or not.
C5_RanksSumToOne ==
    (pc \in {"while", "compute", "returned"} /\ Pages # {}) =>
        BSum(pagerank, Pages) = scale

C5_Witness ==
    /\ pc = "returned"
    /\ Dangling # {}
    /\ Dangling # Pages
    /\ \E pg \in Pages : BMul(pagerank[pg], NumPages(corpus)) # scale

\* C6 as claimed: on {A: {B}, B: {}} with d = 0.85 iterate_pagerank returns
\* ranks within 0.001 of {A: 0.5, B: 0.5}.
C6_AsClaimed ==
    (pc = "returned" /\ damping_factor = DAMPING /\ corpus = DanglingPair) =>
        Near(pagerank[1], 1, 2) /\ Near(pagerank[2], 1, 2)

\* C6 as amended: with d = 0.85, on {A: {B}, B: {}} iterate_pagerank returns
\* ranks within 0.001 of {A: 20/57, B: 37/57}, and not within 0.001 of 0.5;
\* on the two-cycle {A: {B}, B: {A}} it returns {A: 0.5, B: 0.5}.
C6_Amended ==
    (pc = "returned" /\ damping_factor = DAMPING) =>
        /\ corpus = DanglingPair =>
             /\ Near(pagerank[1], 20, 57) /\ Near(pagerank[2], 37, 57)
             /\ ~Near(pagerank[1], 1, 2) /\ ~Near(pagerank[2], 1, 2)
        /\ corpus = TwoCycle =>
             /\ BMul(pagerank[1], 2) = scale
             /\ BMul(pagerank[2], 2) = scale

C6_Witness ==
    pc = "returned" /\ damping_factor = DAMPING /\ corpus = DanglingPair /\ swept

\* C7: with a corpus of zero pages no estimator returns a rank mapping.
C7_EmptyCorpusRejected ==
    Pages = {} => pc \notin {"sample_returned", "returned"}

\* C8: with a current page that is no key of a non-empty corpus,
\* transition_model raises and returns no distribution.
C8_UnknownPageRaises ==
    (pc \in {"tm_returned", "tm_raised"} /\ Pages # {} /\ page \notin Pages) =>
        pc = "tm_raised"

\* C9: every new rank of a sweep is, when it is computed, the recurrence
\* over the ranks the sweep started with; no rank is overwritten while new
\* ranks are computed; the ranks a sweep ends with are the recurrence over
\* the ranks it started with, for every page.
C9_SynchronousUpdate ==
    /\ pc = "compute" =>
         /\ pagerank = snapshot
         /\ page > 1 => new_rank[page - 1] = Recurrence(snapshot, page - 1)
    /\ pc = "commit" =>
         /\ \A pg \in 1..(page - 1) : pagerank[pg] = new_rank[pg]
         /\ \A pg \in page..NumPages(corpus) : pagerank[pg] = snapshot[pg]
    /\ (pc \in {"while", "returned"} /\ swept) =>
         /\ pagerank = new_rank
         /\ pc = "while" =>
              \A pg \in Pages : pagerank[pg] = Recurrence(snapshot, pg)

C9_Witness ==
    /\ pc = "compute"
    /\ swept
    /\ page = NumPages(corpus)
    /\ \E pg \in 1..(page - 1) : new_rank[pg] # pagerank[pg]
    /\ \E pg \in Pages : corpus[pg] = {}
    /\ \E pg \in Pages : corpus[pg] # {}

\* C10: after a sweep, iterate_pagerank returns if and only if no rank
\* changed by more than 0.001 in that sweep, sweeps again otherwise, and
\* returns the ranks of that last sweep.
C10_ConvergenceTest ==
    [][(pc = "while" /\ swept) =>
          /\ (pc' = "returned") <=> AllWithin
          /\ (pc' \in {"compute", "while"}) <=> ~AllWithin
          /\ pc' = "returned" => (pagerank' = pagerank /\ pagerank' = new_rank)
      ]_vars

C10_Witness ==
    /\ pc = "returned"
    /\ AllWithin
    /\ \E pg \in Pages : BMul(snapshot[pg], NumPages(corpus)) # scale

====
